---- MODULE Spec2Model ----
(***************************************************************************)
(* Model of plotng's dashboard client (internal/client.go): the background *)
(* poll loop, the queue of update closures run by the tview render thread, *)
(* the per-host snapshot store, the directory aggregation and the keyed    *)
(* table reconciliation.                                                   *)
(***************************************************************************)
EXTENDS Integers, Sequences, FiniteSets, TLC

VARIABLES
    hostList,            \* the hostList argument of ProcessLoop
    hosts,               \* client.hosts: configured host addresses, in order
    msg,                 \* client.msg: host -> Msg
    activePlotsTable,    \* rows of client.activePlotsTable, key -> row data
    plotDirsTable,       \* rows of client.plotDirsTable
    destDirsTable,       \* rows of client.destDirsTable
    archivedPlotsTable,  \* rows of client.archivedPlotsTable
    hostsTable,          \* rows of client.hostsTable
    titles,              \* title text of the five tables
    activeLogs,          \* client.activeLogs: plot id -> log tail
    archivedLogs,        \* client.archivedLogs: plot id -> log tail
    logPlotId,           \* client.logPlotId: the selected key
    logTitle,            \* title of client.logTextbox
    logText,             \* text of client.logTextbox
    pollPc,              \* position of the processLoop goroutine
    pollIdx,             \* index into client.hosts of the sweep in progress
    updates,             \* tview's queue of update closures
    touched,             \* which thread has accessed which piece of state
    divisors,            \* the divisors used by the last aggregation passes
    recOps               \* rows inserted / deleted by the last reconciliation passes

vars == <<hostList, hosts, msg, activePlotsTable, plotDirsTable, destDirsTable,
          archivedPlotsTable, hostsTable, titles, activeLogs, archivedLogs,
          logPlotId, logTitle, logText, pollPc, pollIdx, updates,
          touched, divisors, recOps>>

tableVars == <<activePlotsTable, plotDirsTable, destDirsTable, archivedPlotsTable,
               hostsTable, titles>>
logVars == <<activeLogs, archivedLogs, logPlotId, logTitle, logText>>
pollVars == <<pollPc, pollIdx>>

----------------------------------------------------------------------------
(* Bounds of the model *)

\* capacity of the render thread's update queue (QueueUpdateDraw blocks when full)
MaxQueue == 1
\* longest archived list of the stores the aggregation passes are checked on
MaxArchived == 2

----------------------------------------------------------------------------
(* Go maps *)

EmptyMap == << >>

Put(m, k, v) == [x \in (DOMAIN m) \cup {k} |-> IF x = k THEN v ELSE m[x]]

Delete(m, k) == [x \in (DOMAIN m) \ {k} |-> m[x]]

\* the entries of a map as a sequence of <<key, value>>, in one iteration order
RECURSIVE MapPairs(_)
MapPairs(m) ==
    IF DOMAIN m = {} THEN << >>
    ELSE LET k == CHOOSE x \in DOMAIN m : TRUE
         IN  <<<<k, m[k]>>>> \o MapPairs(Delete(m, k))

\* the orders in which a range loop can visit the keys of a map
Orders(S) == {o \in [1..Cardinality(S) -> S] : \A x \in S : \E i \in DOMAIN o : o[i] = x}

----------------------------------------------------------------------------
(* Data reported by the hosts *)

PlotRunning == "Running"
PlotError == "Errored"
PlotFinished == "Finished"
PlotKilled == "Killed"
PlotStates == {PlotRunning, PlotError, PlotFinished, PlotKilled}

\* math.MaxUint64, scaled to the range of the model's integers
MaxUint64 == 2147483647

\* &Msg{}
EmptyMsg == [Status |-> "", Actives |-> << >>, Archived |-> << >>,
             TempDirs |-> EmptyMap, TargetDirs |-> EmptyMap]

getPhaseTime(plot, i) == plot.PhaseTime[i + 1]
getCurrentPhase(plot) == plot.Phase
getProgress(plot) == plot.Progress

\* time.Time.Sub
Sub(t, u) == t - u

\* Go's integer division truncates toward zero; a zero divisor panics, shown
\* here as the value 0 with the divisor recorded in divisors
GoDiv(a, b) ==
    IF b = 0 THEN 0
    ELSE IF a >= 0 THEN a \div b ELSE -((-a) \div b)

\* strings.Join(log, "")
RECURSIVE Join(_)
Join(log) == IF log = << >> THEN "" ELSE Head(log) \o Join(Tail(log))

shortenPlotId(id) ==
    IF Len(id) < 20 THEN ""
    ELSE SubSeq(id, 1, 10) \o "..." \o SubSeq(id, Len(id) - 9, Len(id))

LogTitle(id) == " Log (" \o shortenPlotId(id) \o ") "

----------------------------------------------------------------------------
(* The payloads the hosts of the model serve *)

Host1 == "h1:8484"
Host2 == "h2:8484"
\* the character at position i of string s
At(s, i) == SubSeq(s, i, i)

\* strings.Split(s, ","): the pieces between the commas, in order
RECURSIVE SplitFrom(_, _, _)
SplitFrom(s, start, i) ==
    IF i > Len(s) THEN <<SubSeq(s, start, Len(s))>>
    ELSE IF At(s, i) = ","
         THEN <<SubSeq(s, start, i - 1)>> \o SplitFrom(s, i + 1, i + 1)
         ELSE SplitFrom(s, start, i + 1)

Split(s) == SplitFrom(s, 1, 1)

WhiteSpace == {" ", "\t", "\n", "\r"}

\* strings.TrimSpace(s)
RECURSIVE TrimLeft(_)
TrimLeft(s) ==
    IF Len(s) > 0 /\ At(s, 1) \in WhiteSpace THEN TrimLeft(SubSeq(s, 2, Len(s))) ELSE s

RECURSIVE TrimRight(_)
TrimRight(s) ==
    IF Len(s) > 0 /\ At(s, Len(s)) \in WhiteSpace
    THEN TrimRight(SubSeq(s, 1, Len(s) - 1))
    ELSE s

TrimSpace(s) == TrimRight(TrimLeft(s))

\* strings.Index(s, ":"), counted from 0; -1 when s has no colon
Index(s) ==
    IF \E i \in 1..Len(s) : At(s, i) = ":"
    THEN (CHOOSE i \in 1..Len(s) :
              At(s, i) = ":" /\ \A j \in 1..(i - 1) : At(s, j) # ":") - 1
    ELSE -1

DefaultPort == ":8484"

\* if strings.Index(host, ":") < 0 { host += ":8484" }
addPort(host) == IF Index(host) < 0 THEN host \o DefaultPort ELSE host

\* the loop of ProcessLoop over strings.Split(hostList, ",")
ParseHosts(list) ==
    LET items == Split(list)
    IN  [i \in 1..Len(items) |-> addPort(TrimSpace(items[i]))]

\* the host list the polling model is configured with
HostList == "h1, h2:8484"

ConfiguredHosts == ParseHosts(HostList)

PlotId(h, n) == h \o "-plot-000000000" \o ToString(n)

TimesA == <<10, 11, 13, 16, 20>>
TimesB == <<10, 12, 12, 15, 17>>
TimesRunning == <<10, 11, 0, 0, 0>>

Plot(id, state, times, plotDir, targetDir) ==
    [Id |-> id, State |-> state, PhaseTime |-> times,
     Phase |-> IF state = PlotRunning THEN 2 ELSE 4,
     Progress |-> IF state = PlotRunning THEN 40 ELSE 100,
     PlotDir |-> plotDir, TargetDir |-> targetDir,
     Tail |-> IF state = PlotRunning THEN <<"phase 2\n">>
              ELSE <<"phase 2\n", state \o "\n">>]

BothTemp == ("/t1" :> 5) @@ ("/t2" :> 3)
BothTarget == ("/d1" :> 9) @@ ("/d2" :> 7)

\* three stages of a host's life: plot 1 running in the first directories;
\* plot 1 finished and plot 2 running in the second ones; plot 2 killed and
\* the second directories withdrawn
Stages == 1..3

StageMsg(h, k) ==
    CASE k = 1 -> [Status |-> "",
                   Actives |-> <<Plot(PlotId(h, 1), PlotRunning, TimesRunning, "/t1", "/d1")>>,
                   Archived |-> << >>,
                   TempDirs |-> ("/t1" :> 6), TargetDirs |-> ("/d1" :> 9)]
      [] k = 2 -> [Status |-> "",
                   Actives |-> <<Plot(PlotId(h, 2), PlotRunning, TimesRunning, "/t2", "/d2")>>,
                   Archived |-> <<Plot(PlotId(h, 1), PlotFinished, TimesA, "/t1", "/d1")>>,
                   TempDirs |-> BothTemp, TargetDirs |-> BothTarget]
      [] OTHER -> [Status |-> "", Actives |-> << >>,
                   Archived |-> <<Plot(PlotId(h, 1), PlotFinished, TimesA, "/t1", "/d1"),
                                  Plot(PlotId(h, 2), PlotKilled, TimesRunning, "/t2", "/d2")>>,
                   TempDirs |-> ("/t1" :> 4), TargetDirs |-> ("/d1" :> 8)]

ErrTimeout == "context deadline exceeded (Client.Timeout exceeded while awaiting headers)"
ErrDecode == "Failed to decode message: unexpected EOF"
FetchErrors == {ErrTimeout, ErrDecode}

\* what getServerData can return for a host: (msg, nil) or (nil, err)
getServerData(h) ==
    {[err |-> "", msg |-> StageMsg(h, k)] : k \in Stages}
        \cup {[err |-> e, msg |-> EmptyMsg] : e \in FetchErrors}

\* time.Since is read against a clock that moves between passes
Clock == {30, 31}

----------------------------------------------------------------------------
(* widget.SortedTable: a keyed row store *)

Keys(table) == DOMAIN table
SetRowData(table, key, row) == Put(table, key, row)
ClearRowData(table, key) == Delete(table, key)

\* one reconciliation pass: the keys present before the pass are marked for
\* removal, every new row is upserted and unmarked, the keys still marked are
\* cleared. pairs is the sequence of <<key, row>> in the order the loop sets them.
RECURSIVE upsertRows(_, _, _)
upsertRows(st, pairs, i) ==
    IF i > Len(pairs) THEN st
    ELSE LET key == pairs[i][1]
             row == pairs[i][2]
         IN  upsertRows([tab |-> SetRowData(st.tab, key, row),
                         keysToRemove |-> st.keysToRemove \ {key},
                         ins |-> IF key \in Keys(st.tab) THEN st.ins
                                 ELSE st.ins \cup {key}],
                        pairs, i + 1)

RECURSIVE clearRows(_, _)
clearRows(tab, keys) ==
    IF keys = {} THEN tab
    ELSE LET k == CHOOSE x \in keys : TRUE
         IN  clearRows(ClearRowData(tab, k), keys \ {k})

\* variant: the keys still marked after the pass are not cleared
reconcile_noClear(table, pairs) ==
    LET st == upsertRows([tab |-> table, keysToRemove |-> Keys(table), ins |-> {}],
                         pairs, 1)
    IN  [tab |-> st.tab, ins |-> st.ins, del |-> {}]

\* variant: the table is emptied and every row inserted again
reconcile_rebuild(table, pairs) ==
    LET st == upsertRows([tab |-> EmptyMap, keysToRemove |-> {}, ins |-> {}], pairs, 1)
    IN  [tab |-> st.tab, ins |-> st.ins, del |-> Keys(table)]

reconcile(table, pairs) ==
    LET st == upsertRows([tab |-> table, keysToRemove |-> Keys(table), ins |-> {}],
                         pairs, 1)
    IN  [tab |-> clearRows(st.tab, st.keysToRemove),
         ins |-> st.ins,
         del |-> st.keysToRemove]

----------------------------------------------------------------------------
(* Active plots *)

\* for host, msg := range client.msg { for _, plot := range msg.Actives {...} }
RECURSIVE ActiveVisits(_, _)
ActiveVisits(store, order) ==
    IF order = << >> THEN << >>
    ELSE LET h == Head(order)
         IN  [i \in 1..Len(store[h].Actives) |-> <<h, store[h].Actives[i]>>]
                 \o ActiveVisits(store, Tail(order))

RECURSIVE ArchivedVisits(_, _)
ArchivedVisits(store, order) ==
    IF order = << >> THEN << >>
    ELSE LET h == Head(order)
         IN  [i \in 1..Len(store[h].Archived) |-> <<h, store[h].Archived[i]>>]
                 \o ArchivedVisits(store, Tail(order))

\* logs[plot.Id] = plot.Tail for every visited plot, in order
RECURSIVE collectLogs(_, _, _)
collectLogs(logs, visits, i) ==
    IF i > Len(visits) THEN logs
    ELSE collectLogs(Put(logs, visits[i][2].Id, visits[i][2].Tail), visits, i + 1)

makeActivePlotsData(host, p, now) ==
    [Host |-> host, PlotId |-> p.Id, Status |-> p.State,
     Phase |-> getCurrentPhase(p), Progress |-> getProgress(p),
     StartTime |-> getPhaseTime(p, 0),
     Duration |-> Sub(now, getPhaseTime(p, 0)),
     PlotDir |-> p.PlotDir, DestDir |-> p.TargetDir]

drawActivePlotsTable(store, order, table, now) ==
    LET visits == ActiveVisits(store, order)
        pairs == [i \in 1..Len(visits) |->
                     <<visits[i][2].Id, makeActivePlotsData(visits[i][1], visits[i][2], now)>>]
        rec == reconcile(table, pairs)
    IN  [tab |-> rec.tab, ins |-> rec.ins, del |-> rec.del,
         logs |-> collectLogs(EmptyMap, visits, 1),
         title |-> " Active Plots [" \o ToString(Len(visits)) \o "] "]

----------------------------------------------------------------------------
(* Plot directories *)

DirKey(host, dir) == host \o "||" \o dir

NewPlotDir(host, plotDir, bytes) ==
    [Host |-> host, PlotDir |-> plotDir, AvailableBytes |-> bytes,
     AvgPhase1 |-> 0, AvgPhase2 |-> 0, AvgPhase3 |-> 0, AvgPhase4 |-> 0,
     Count |-> 0, Failed |-> 0]

\* for plotDir, plotSpace := range msg.TempDirs { plotDirs[host+"||"+plotDir] = ... }
seedPlotDirs(plotDirs, host, tempDirs) ==
    LET new == {DirKey(host, d) : d \in DOMAIN tempDirs}
    IN  [k \in (DOMAIN plotDirs) \cup new |->
            IF k \in new
            THEN LET d == CHOOSE x \in DOMAIN tempDirs : DirKey(host, x) = k
                 IN  NewPlotDir(host, d, tempDirs[d])
            ELSE plotDirs[k]]

\* variant: the phases of errored and killed plots are summed as well
countPlotDir_failedTimed(pdd, plot) ==
    CASE plot.State = PlotFinished ->
            [pdd EXCEPT
                !.AvgPhase1 = @ + Sub(getPhaseTime(plot, 1), getPhaseTime(plot, 0)),
                !.AvgPhase2 = @ + Sub(getPhaseTime(plot, 2), getPhaseTime(plot, 1)),
                !.AvgPhase3 = @ + Sub(getPhaseTime(plot, 3), getPhaseTime(plot, 2)),
                !.AvgPhase4 = @ + Sub(getPhaseTime(plot, 4), getPhaseTime(plot, 3)),
                !.Count = @ + 1]
      [] plot.State \in {PlotError, PlotKilled} ->
            [pdd EXCEPT
                !.AvgPhase1 = @ + Sub(getPhaseTime(plot, 1), getPhaseTime(plot, 0)),
                !.AvgPhase2 = @ + Sub(getPhaseTime(plot, 2), getPhaseTime(plot, 1)),
                !.AvgPhase3 = @ + Sub(getPhaseTime(plot, 3), getPhaseTime(plot, 2)),
                !.AvgPhase4 = @ + Sub(getPhaseTime(plot, 4), getPhaseTime(plot, 3)),
                !.Failed = @ + 1]
      [] OTHER -> pdd

\* the switch on plot.State of makePlotDirsData
countPlotDir(pdd, plot) ==
    CASE plot.State = PlotFinished ->
            [pdd EXCEPT
                !.AvgPhase1 = @ + Sub(getPhaseTime(plot, 1), getPhaseTime(plot, 0)),
                !.AvgPhase2 = @ + Sub(getPhaseTime(plot, 2), getPhaseTime(plot, 1)),
                !.AvgPhase3 = @ + Sub(getPhaseTime(plot, 3), getPhaseTime(plot, 2)),
                !.AvgPhase4 = @ + Sub(getPhaseTime(plot, 4), getPhaseTime(plot, 3)),
                !.Count = @ + 1]
      [] plot.State \in {PlotError, PlotKilled} -> [pdd EXCEPT !.Failed = @ + 1]
      [] OTHER -> pdd

\* "There's data from a completed plot, but we're no longer using it"
\* variant: an orphaned directory is entered with no capacity instead of the sentinel
orphanPlotDir_zero(host, plot) == NewPlotDir(host, plot.PlotDir, 0)

orphanPlotDir(host, plot) == NewPlotDir(host, plot.PlotDir, MaxUint64)

\* for _, plot := range msg.Archived {...}
RECURSIVE archivedPlotDirs(_, _, _, _)
archivedPlotDirs(plotDirs, host, archived, i) ==
    IF i > Len(archived) THEN plotDirs
    ELSE LET plot == archived[i]
             key == DirKey(host, plot.PlotDir)
             pdd == IF key \in DOMAIN plotDirs THEN plotDirs[key]
                    ELSE orphanPlotDir(host, plot)
         IN  archivedPlotDirs(Put(plotDirs, key, countPlotDir(pdd, plot)),
                              host, archived, i + 1)

RECURSIVE sumPlotDirs(_, _, _)
sumPlotDirs(plotDirs, store, order) ==
    IF order = << >> THEN plotDirs
    ELSE LET h == Head(order)
             seeded == seedPlotDirs(plotDirs, h, store[h].TempDirs)
         IN  sumPlotDirs(archivedPlotDirs(seeded, h, store[h].Archived, 1),
                         store, Tail(order))

\* variant: the division is not guarded by pdd.Count > 0
averagePlotDir_unguarded(pdd) ==
    [row |-> [pdd EXCEPT !.AvgPhase1 = GoDiv(@, pdd.Count),
                         !.AvgPhase2 = GoDiv(@, pdd.Count),
                         !.AvgPhase3 = GoDiv(@, pdd.Count),
                         !.AvgPhase4 = GoDiv(@, pdd.Count)],
     by |-> {pdd.Count}]

\* if pdd.Count > 0 { pdd.AvgPhaseN /= time.Duration(pdd.Count) }
averagePlotDir(pdd) ==
    IF pdd.Count > 0
    THEN [row |-> [pdd EXCEPT !.AvgPhase1 = GoDiv(@, pdd.Count),
                              !.AvgPhase2 = GoDiv(@, pdd.Count),
                              !.AvgPhase3 = GoDiv(@, pdd.Count),
                              !.AvgPhase4 = GoDiv(@, pdd.Count)],
          by |-> {pdd.Count}]
    ELSE [row |-> pdd, by |-> {}]

makePlotDirsData(store, order) ==
    LET sums == sumPlotDirs(EmptyMap, store, order)
    IN  [dirs |-> [k \in DOMAIN sums |-> averagePlotDir(sums[k]).row],
         by |-> UNION {averagePlotDir(sums[k]).by : k \in DOMAIN sums}]

drawPlotDirsTable(store, order, table) ==
    LET made == makePlotDirsData(store, order)
        rec == reconcile(table, MapPairs(made.dirs))
    IN  [tab |-> rec.tab, ins |-> rec.ins, del |-> rec.del, by |-> made.by,
         title |-> " Plot Directories [" \o ToString(Cardinality(DOMAIN made.dirs)) \o "] "]

----------------------------------------------------------------------------
(* Dest directories *)

NewDestDir(host, destDir, bytes) ==
    [Host |-> host, DestDir |-> destDir, AvailableBytes |-> bytes,
     AvgPlotTime |-> 0, Count |-> 0, Failed |-> 0]

seedDestDirs(destDirs, host, targetDirs) ==
    LET new == {DirKey(host, d) : d \in DOMAIN targetDirs}
    IN  [k \in (DOMAIN destDirs) \cup new |->
            IF k \in new
            THEN LET d == CHOOSE x \in DOMAIN targetDirs : DirKey(host, x) = k
                 IN  NewDestDir(host, d, targetDirs[d])
            ELSE destDirs[k]]

countDestDir(ddd, plot) ==
    CASE plot.State = PlotFinished ->
            [ddd EXCEPT
                !.AvgPlotTime = @ + Sub(getPhaseTime(plot, 4), getPhaseTime(plot, 0)),
                !.Count = @ + 1]
      [] plot.State \in {PlotError, PlotKilled} -> [ddd EXCEPT !.Failed = @ + 1]
      [] OTHER -> ddd

orphanDestDir(host, plot) == NewDestDir(host, plot.TargetDir, MaxUint64)

RECURSIVE archivedDestDirs(_, _, _, _)
archivedDestDirs(destDirs, host, archived, i) ==
    IF i > Len(archived) THEN destDirs
    ELSE LET plot == archived[i]
             key == DirKey(host, plot.TargetDir)
             ddd == IF key \in DOMAIN destDirs THEN destDirs[key]
                    ELSE orphanDestDir(host, plot)
         IN  archivedDestDirs(Put(destDirs, key, countDestDir(ddd, plot)),
                              host, archived, i + 1)

RECURSIVE sumDestDirs(_, _, _)
sumDestDirs(destDirs, store, order) ==
    IF order = << >> THEN destDirs
    ELSE LET h == Head(order)
             seeded == seedDestDirs(destDirs, h, store[h].TargetDirs)
         IN  sumDestDirs(archivedDestDirs(seeded, h, store[h].Archived, 1),
                         store, Tail(order))

averageDestDir(ddd) ==
    IF ddd.Count > 0
    THEN [row |-> [ddd EXCEPT !.AvgPlotTime = GoDiv(@, ddd.Count)], by |-> {ddd.Count}]
    ELSE [row |-> ddd, by |-> {}]

makeDestDirsData(store, order) ==
    LET sums == sumDestDirs(EmptyMap, store, order)
    IN  [dirs |-> [k \in DOMAIN sums |-> averageDestDir(sums[k]).row],
         by |-> UNION {averageDestDir(sums[k]).by : k \in DOMAIN sums}]

drawDestDirsTable(store, order, table) ==
    LET made == makeDestDirsData(store, order)
        rec == reconcile(table, MapPairs(made.dirs))
    IN  [tab |-> rec.tab, ins |-> rec.ins, del |-> rec.del, by |-> made.by,
         title |-> " Dest Directories [" \o ToString(Cardinality(DOMAIN made.dirs)) \o "] "]

----------------------------------------------------------------------------
(* Archived plots *)

makeArchivedPlotData(host, p) ==
    [Host |-> host, PlotId |-> p.Id, Status |-> p.State,
     Phase |-> getCurrentPhase(p),
     StartTime |-> getPhaseTime(p, 0), EndTime |-> getPhaseTime(p, 4),
     Duration |-> Sub(getPhaseTime(p, 4), getPhaseTime(p, 0)),
     PlotDir |-> p.PlotDir, DestDir |-> p.TargetDir]

CountState(visits, states) ==
    Cardinality({i \in 1..Len(visits) : visits[i][2].State \in states})

drawArchivedPlotsTable(store, order, table) ==
    LET visits == ArchivedVisits(store, order)
        pairs == [i \in 1..Len(visits) |->
                     <<visits[i][2].Id, makeArchivedPlotData(visits[i][1], visits[i][2])>>]
        rec == reconcile(table, pairs)
        archivedPlotsSuccess == CountState(visits, {PlotFinished})
        archivedPlotsFailed == CountState(visits, {PlotKilled, PlotError})
    IN  [tab |-> rec.tab, ins |-> rec.ins, del |-> rec.del,
         logs |-> collectLogs(EmptyMap, visits, 1),
         title |-> IF archivedPlotsFailed > 0
                   THEN " Archived Plots [" \o ToString(archivedPlotsSuccess) \o " ("
                            \o ToString(archivedPlotsFailed) \o " failed)] "
                   ELSE " Archived Plots [" \o ToString(archivedPlotsSuccess) \o "] "]

----------------------------------------------------------------------------
(* Host data *)

makeHostsData(host, m) == [Host |-> host, Status |-> m.Status]

drawHostsTable(store, order, table) ==
    LET pairs == [i \in 1..Len(order) |-> <<order[i], makeHostsData(order[i], store[order[i]])>>]
        rec == reconcile(table, pairs)
    IN  [tab |-> rec.tab, ins |-> rec.ins, del |-> rec.del,
         title |-> " Hosts [" \o ToString(Cardinality(DOMAIN store)) \o "] "]

----------------------------------------------------------------------------
(* The update closure of checkServer *)

RenderOwned == {"msg", "activePlotsTable", "plotDirsTable", "destDirsTable",
                "archivedPlotsTable", "hostsTable", "activeLogs", "archivedLogs",
                "logPlotId", "logTextbox"}

Touch(thread, names) == touched' = touched \cup {<<thread, n>> : n \in names}

\* variant: a failed poll blanks the host's record ("clear on error")
updateFailed_clear(thread, host, err, track) ==
    LET store == Put(msg, host, [EmptyMsg EXCEPT !.Status = err])
    IN  /\ msg' = store
        /\ \E order \in Orders(DOMAIN store) :
              LET h == drawHostsTable(store, order, hostsTable)
              IN  /\ hostsTable' = h.tab
                  /\ titles' = [titles EXCEPT !.hosts = h.title]
                  /\ recOps' = IF track THEN ("hosts" :> [ins |-> h.ins, del |-> h.del])
                                ELSE recOps
        /\ UNCHANGED <<activePlotsTable, plotDirsTable, destDirsTable,
                       archivedPlotsTable, logVars, divisors>>
        /\ Touch(thread, {"msg", "hostsTable"})

\* variant: the hosts table is not redrawn after a failed poll
updateFailed_noDraw(thread, host, err, track) ==
    LET present == IF host \in DOMAIN msg THEN msg ELSE Put(msg, host, EmptyMsg)
        store == [present EXCEPT ![host].Status = err]
    IN  /\ msg' = store
        /\ UNCHANGED <<tableVars, logVars, divisors, recOps>>
        /\ Touch(thread, {"msg"})

\* variant: a failed poll writes its error into every record of the store
updateFailed_all(thread, host, err, track) ==
    LET present == IF host \in DOMAIN msg THEN msg ELSE Put(msg, host, EmptyMsg)
        store == [g \in DOMAIN present |-> [present[g] EXCEPT !.Status = err]]
    IN  /\ msg' = store
        /\ \E order \in Orders(DOMAIN store) :
              LET h == drawHostsTable(store, order, hostsTable)
              IN  /\ hostsTable' = h.tab
                  /\ titles' = [titles EXCEPT !.hosts = h.title]
                  /\ recOps' = IF track THEN ("hosts" :> [ins |-> h.ins, del |-> h.del])
                                ELSE recOps
        /\ UNCHANGED <<activePlotsTable, plotDirsTable, destDirsTable,
                       archivedPlotsTable, logVars, divisors>>
        /\ Touch(thread, {"msg", "hostsTable"})

\* if err != nil { ...; client.msg[host].Status = err.Error(); client.drawHostsTable(); return }
updateFailed(thread, host, err, track) ==
    LET present == IF host \in DOMAIN msg THEN msg ELSE Put(msg, host, EmptyMsg)
        store == [present EXCEPT ![host].Status = err]
    IN  /\ msg' = store
        /\ \E order \in Orders(DOMAIN store) :
              LET h == drawHostsTable(store, order, hostsTable)
              IN  /\ hostsTable' = h.tab
                  /\ titles' = [titles EXCEPT !.hosts = h.title]
                  /\ recOps' = IF track THEN ("hosts" :> [ins |-> h.ins, del |-> h.del])
                                ELSE recOps
        /\ UNCHANGED <<activePlotsTable, plotDirsTable, destDirsTable,
                       archivedPlotsTable, logVars, divisors>>
        /\ Touch(thread, {"msg", "hostsTable"})

\* variant: the refresh of the log box looks the key up in the active logs only
applySnapshot_noFallback(store, thread, now, track) ==
    /\ msg' = store
    /\ \E order \in Orders(DOMAIN store) :
              LET a == drawActivePlotsTable(store, order, activePlotsTable, now)
                  p == drawPlotDirsTable(store, order, plotDirsTable)
                  d == drawDestDirsTable(store, order, destDirsTable)
                  r == drawArchivedPlotsTable(store, order, archivedPlotsTable)
                  h == drawHostsTable(store, order, hostsTable)
                  found == logPlotId \in DOMAIN a.logs
                  log == IF logPlotId \in DOMAIN a.logs THEN a.logs[logPlotId]
                         ELSE r.logs[logPlotId]
              IN  /\ activePlotsTable' = a.tab
                  /\ plotDirsTable' = p.tab
                  /\ destDirsTable' = d.tab
                  /\ archivedPlotsTable' = r.tab
                  /\ hostsTable' = h.tab
                  /\ titles' = [active |-> a.title, plotDirs |-> p.title,
                                destDirs |-> d.title, archived |-> r.title,
                                hosts |-> h.title]
                  /\ activeLogs' = a.logs
                  /\ archivedLogs' = r.logs
                  /\ divisors' = [plotDirs |-> p.by, destDirs |-> d.by]
                  /\ recOps' = IF track
                                THEN [active |-> [ins |-> a.ins, del |-> a.del],
                                      plotDirs |-> [ins |-> p.ins, del |-> p.del],
                                      destDirs |-> [ins |-> d.ins, del |-> d.del],
                                      archived |-> [ins |-> r.ins, del |-> r.del],
                                      hosts |-> [ins |-> h.ins, del |-> h.del]]
                                ELSE recOps
                  /\ logTitle' = IF found THEN LogTitle(logPlotId) ELSE logTitle
                  /\ logText' = IF found THEN Join(log) ELSE logText
    /\ UNCHANGED logPlotId
    /\ Touch(thread, RenderOwned)

\* the ids of the plots the records of a store list
ActiveIdsOf(store) ==
    UNION {{store[h].Actives[i].Id : i \in 1..Len(store[h].Actives)} : h \in DOMAIN store}
ArchivedIdsOf(store) ==
    UNION {{store[h].Archived[i].Id : i \in 1..Len(store[h].Archived)} : h \in DOMAIN store}

\* variant: the selection is dropped when the selected plot is gone
applySnapshot_dropSelection(store, thread, now, track) ==
    /\ msg' = store
    /\ \E order \in Orders(DOMAIN store) :
              LET a == drawActivePlotsTable(store, order, activePlotsTable, now)
                  p == drawPlotDirsTable(store, order, plotDirsTable)
                  d == drawDestDirsTable(store, order, destDirsTable)
                  r == drawArchivedPlotsTable(store, order, archivedPlotsTable)
                  h == drawHostsTable(store, order, hostsTable)
                  found == logPlotId \in (DOMAIN a.logs) \cup (DOMAIN r.logs)
                  log == IF logPlotId \in DOMAIN a.logs THEN a.logs[logPlotId]
                         ELSE r.logs[logPlotId]
              IN  /\ activePlotsTable' = a.tab
                  /\ plotDirsTable' = p.tab
                  /\ destDirsTable' = d.tab
                  /\ archivedPlotsTable' = r.tab
                  /\ hostsTable' = h.tab
                  /\ titles' = [active |-> a.title, plotDirs |-> p.title,
                                destDirs |-> d.title, archived |-> r.title,
                                hosts |-> h.title]
                  /\ activeLogs' = a.logs
                  /\ archivedLogs' = r.logs
                  /\ divisors' = [plotDirs |-> p.by, destDirs |-> d.by]
                  /\ recOps' = IF track
                                THEN [active |-> [ins |-> a.ins, del |-> a.del],
                                      plotDirs |-> [ins |-> p.ins, del |-> p.del],
                                      destDirs |-> [ins |-> d.ins, del |-> d.del],
                                      archived |-> [ins |-> r.ins, del |-> r.del],
                                      hosts |-> [ins |-> h.ins, del |-> h.del]]
                                ELSE recOps
                  /\ logTitle' = IF found THEN LogTitle(logPlotId) ELSE logTitle
                  /\ logText' = IF found THEN Join(log) ELSE logText
    /\ logPlotId' = IF logPlotId \in ActiveIdsOf(store) \cup ArchivedIdsOf(store)
                    THEN logPlotId ELSE ""
    /\ Touch(thread, RenderOwned)

\* the five draws and the refresh of the log box, over the new store
applySnapshot(store, thread, now, track) ==
    /\ msg' = store
    /\ \E order \in Orders(DOMAIN store) :
              LET a == drawActivePlotsTable(store, order, activePlotsTable, now)
                  p == drawPlotDirsTable(store, order, plotDirsTable)
                  d == drawDestDirsTable(store, order, destDirsTable)
                  r == drawArchivedPlotsTable(store, order, archivedPlotsTable)
                  h == drawHostsTable(store, order, hostsTable)
                  found == logPlotId \in (DOMAIN a.logs) \cup (DOMAIN r.logs)
                  log == IF logPlotId \in DOMAIN a.logs THEN a.logs[logPlotId]
                         ELSE r.logs[logPlotId]
              IN  /\ activePlotsTable' = a.tab
                  /\ plotDirsTable' = p.tab
                  /\ destDirsTable' = d.tab
                  /\ archivedPlotsTable' = r.tab
                  /\ hostsTable' = h.tab
                  /\ titles' = [active |-> a.title, plotDirs |-> p.title,
                                destDirs |-> d.title, archived |-> r.title,
                                hosts |-> h.title]
                  /\ activeLogs' = a.logs
                  /\ archivedLogs' = r.logs
                  /\ divisors' = [plotDirs |-> p.by, destDirs |-> d.by]
                  /\ recOps' = IF track
                                THEN [active |-> [ins |-> a.ins, del |-> a.del],
                                      plotDirs |-> [ins |-> p.ins, del |-> p.del],
                                      destDirs |-> [ins |-> d.ins, del |-> d.del],
                                      archived |-> [ins |-> r.ins, del |-> r.del],
                                      hosts |-> [ins |-> h.ins, del |-> h.del]]
                                ELSE recOps
                  /\ logTitle' = IF found THEN LogTitle(logPlotId) ELSE logTitle
                  /\ logText' = IF found THEN Join(log) ELSE logText
    /\ UNCHANGED logPlotId
    /\ Touch(thread, RenderOwned)

\* variant: the record is replaced but the status of the old record is kept
updateSucceeded_keepStatus(thread, host, m, now, track) ==
    applySnapshot(Put(msg, host,
                      IF host \in DOMAIN msg THEN [m EXCEPT !.Status = msg[host].Status]
                      ELSE m),
                  thread, now, track)

\* client.msg[host] = msg; the five draws; the refresh of the log box
updateSucceeded(thread, host, m, now, track) ==
    applySnapshot(Put(msg, host, m), thread, now, track)

update(thread, host, res, track) ==
    IF res.err # ""
    THEN updateFailed(thread, host, res.err, track)
    ELSE \E now \in Clock : updateSucceeded(thread, host, res.msg, now, track)

----------------------------------------------------------------------------
(* The poll goroutine: processLoop, checkServers, checkServer *)

\* checkServer(host) is entered and getServerData issues its request
CheckServer ==
    /\ pollPc = "check"
    /\ pollPc' = "fetching"
    /\ Touch("poll", {"hosts"})
    /\ UNCHANGED <<hostList, hosts, msg, tableVars, logVars, pollIdx, updates, divisors, recOps>>

\* variant: the poll goroutine runs the closure itself instead of queueing it
QueueUpdateDraw_direct ==
    /\ pollPc = "fetching"
    /\ \E res \in getServerData(hosts[pollIdx]) :
          update("poll", hosts[pollIdx], res, FALSE)
    /\ IF pollIdx < Len(hosts)
       THEN pollIdx' = pollIdx + 1 /\ pollPc' = "check"
       ELSE pollIdx' = 1 /\ pollPc' = "tick"
    /\ UNCHANGED <<hostList, hosts, updates>>

\* variant: a host whose fetch fails is fetched again until it answers
QueueUpdateDraw_retry ==
    /\ pollPc = "fetching"
    /\ Len(updates) < MaxQueue
    /\ \E res \in getServerData(hosts[pollIdx]) :
          /\ updates' = Append(updates, [host |-> hosts[pollIdx], res |-> res])
          /\ IF res.err # ""
             THEN pollIdx' = pollIdx /\ pollPc' = "check"
             ELSE IF pollIdx < Len(hosts)
                  THEN pollIdx' = pollIdx + 1 /\ pollPc' = "check"
                  ELSE pollIdx' = 1 /\ pollPc' = "tick"
    /\ Touch("poll", {"app"})
    /\ UNCHANGED <<hostList, hosts, msg, tableVars, logVars, divisors, recOps>>

\* variant: checkServers gives up the sweep at the first host whose fetch fails
QueueUpdateDraw_abandon ==
    /\ pollPc = "fetching"
    /\ Len(updates) < MaxQueue
    /\ \E res \in getServerData(hosts[pollIdx]) :
          /\ updates' = Append(updates, [host |-> hosts[pollIdx], res |-> res])
          /\ IF pollIdx < Len(hosts) /\ res.err = ""
             THEN pollIdx' = pollIdx + 1 /\ pollPc' = "check"
             ELSE pollIdx' = 1 /\ pollPc' = "tick"
    /\ Touch("poll", {"app"})
    /\ UNCHANGED <<hostList, hosts, msg, tableVars, logVars, divisors, recOps>>

\* getServerData returns (msg, err) and client.app.QueueUpdateDraw(func() {...})
\* queues the closure over them; then the next host, or the ticker.
\* QueueUpdateDraw blocks while the queue, of the given capacity, is full.
Enqueue(capacity) ==
    /\ pollPc = "fetching"
    /\ Len(updates) < capacity
    /\ \E res \in getServerData(hosts[pollIdx]) :
          updates' = Append(updates, [host |-> hosts[pollIdx], res |-> res])
    /\ IF pollIdx < Len(hosts)
       THEN pollIdx' = pollIdx + 1 /\ pollPc' = "check"
       ELSE pollIdx' = 1 /\ pollPc' = "tick"
    /\ Touch("poll", {"app"})
    /\ UNCHANGED <<hostList, hosts, msg, tableVars, logVars, divisors, recOps>>

QueueUpdateDraw == Enqueue(MaxQueue)

\* for range ticker.C { client.checkServers() }
Tick ==
    /\ pollPc = "tick"
    /\ pollPc' = "check"
    /\ UNCHANGED <<hostList, hosts, msg, tableVars, logVars, pollIdx, updates,
                   touched, divisors, recOps>>

----------------------------------------------------------------------------
(* The render thread: queued closures and selection callbacks *)

\* variant: the render thread runs the closure queued last first
RunUpdate_newestFirst ==
    /\ updates # << >>
    /\ update("render", updates[Len(updates)].host, updates[Len(updates)].res, FALSE)
    /\ updates' = SubSeq(updates, 1, Len(updates) - 1)
    /\ UNCHANGED <<hostList, hosts, pollVars>>

RunUpdate ==
    /\ updates # << >>
    /\ update("render", Head(updates).host, Head(updates).res, FALSE)
    /\ updates' = Tail(updates)
    /\ UNCHANGED <<hostList, hosts, pollVars>>

\* variant: the log box is left as it is when the key has no log
selectActivePlot_keep(key) ==
    /\ logPlotId' = key
    /\ logTitle' = LogTitle(key)
    /\ logText' = IF key \in DOMAIN activeLogs THEN Join(activeLogs[key]) ELSE logText
    /\ Touch("render", {"logPlotId", "logTextbox", "activeLogs",
                        "activePlotsTable", "archivedPlotsTable"})
    /\ UNCHANGED <<hostList, hosts, msg, tableVars, activeLogs, archivedLogs, pollVars,
                   updates, divisors, recOps>>

selectActivePlot(key) ==
    /\ logPlotId' = key
    /\ logTitle' = LogTitle(key)
    /\ logText' = IF key \in DOMAIN activeLogs THEN Join(activeLogs[key]) ELSE ""
    /\ Touch("render", {"logPlotId", "logTextbox", "activeLogs",
                        "activePlotsTable", "archivedPlotsTable"})
    /\ UNCHANGED <<hostList, hosts, msg, tableVars, activeLogs, archivedLogs, pollVars,
                   updates, divisors, recOps>>

\* variant: the archived table's callback looks the key up in the active logs
selectArchivedPlot_activeLogs(key) ==
    /\ logPlotId' = key
    /\ logTitle' = LogTitle(key)
    /\ logText' = IF key \in DOMAIN activeLogs THEN Join(activeLogs[key]) ELSE ""
    /\ Touch("render", {"logPlotId", "logTextbox", "archivedLogs",
                        "activePlotsTable", "archivedPlotsTable"})
    /\ UNCHANGED <<hostList, hosts, msg, tableVars, activeLogs, archivedLogs, pollVars,
                   updates, divisors, recOps>>

selectArchivedPlot(key) ==
    /\ logPlotId' = key
    /\ logTitle' = LogTitle(key)
    /\ logText' = IF key \in DOMAIN archivedLogs THEN Join(archivedLogs[key]) ELSE ""
    /\ Touch("render", {"logPlotId", "logTextbox", "archivedLogs",
                        "activePlotsTable", "archivedPlotsTable"})
    /\ UNCHANGED <<hostList, hosts, msg, tableVars, activeLogs, archivedLogs, pollVars,
                   updates, divisors, recOps>>

\* the key a table reports when its selection is on no data row
NoKey == ""

\* the selection-changed callbacks fire with the key of a row of their table,
\* or with no key
SelectActive == \E key \in Keys(activePlotsTable) \cup {NoKey} : selectActivePlot(key)
SelectArchived == \E key \in Keys(archivedPlotsTable) \cup {NoKey} : selectArchivedPlot(key)

----------------------------------------------------------------------------
(* The program *)

\* the client after setupUI, with its fields as given
Constructed(list, hostSeq, pc, store) ==
    /\ hostList = list
    /\ hosts = hostSeq
    /\ msg = store
    /\ activePlotsTable = EmptyMap
    /\ plotDirsTable = EmptyMap
    /\ destDirsTable = EmptyMap
    /\ archivedPlotsTable = EmptyMap
    /\ hostsTable = EmptyMap
    /\ titles = [active |-> " Active Plots ", plotDirs |-> " Plot Directories ",
                 destDirs |-> " Dest Directories ", archived |-> " Archived Plots ",
                 hosts |-> " Hosts "]
    /\ activeLogs = EmptyMap
    /\ archivedLogs = EmptyMap
    /\ logPlotId = ""
    /\ logTitle = " Log "
    /\ logText = ""
    /\ pollPc = pc
    /\ pollIdx = 1
    /\ updates = << >>
    /\ touched = {}
    /\ divisors = [plotDirs |-> {}, destDirs |-> {}]
    /\ recOps = EmptyMap

\* the client when processLoop starts, for the given host list and store
Started(list, store) == Constructed(list, ParseHosts(list), "check", store)

\* ProcessLoop up to `go client.processLoop()`: client.msg = map[string]*Msg{}
Init == Started(HostList, EmptyMap)

\* the program while the user leaves the selection alone
Next ==
    \/ CheckServer
    \/ QueueUpdateDraw
    \/ Tick
    \/ RunUpdate

Spec == Init /\ [][Next]_vars

\* the program when every fetch returns (the request timeout of httpClient),
\* the ticker keeps ticking, the goroutine is scheduled and the render thread
\* keeps running the closures of its queue (weak fairness of RunUpdate,
\* stated on the queue)
\* the render thread takes the closure at the head of its queue; of the
\* program's steps only RunUpdate does, and it can whenever the queue is not
\* empty
Dequeue == updates # << >> /\ updates' = Tail(updates)

Fairness ==
    /\ WF_vars(CheckServer)
    /\ WF_vars(QueueUpdateDraw)
    /\ WF_vars(Tick)
    /\ WF_updates(Dequeue)

SpecLive == Init /\ [][Next]_vars /\ Fairness

\* the number of closures the queue holds when the render thread lags behind
MaxPending == 2

\* checkServer while the render thread lags behind
QueueUpdateDrawAhead == Enqueue(MaxPending)

\* the program with one host and a render thread that lags behind the polls
NextAhead ==
    \/ CheckServer
    \/ QueueUpdateDrawAhead
    \/ Tick
    \/ RunUpdate

InitAhead == Started("h1", EmptyMap)

SpecAhead == InitAhead /\ [][NextAhead]_vars

\* the items a host list of the parsing model is put together from
HostItems == {"h1", " h2 ", "h1:8484", "h3:9000", "[::1]", "[::1]:8484", ""}

\* the longest host list of the parsing model, in items
MaxItems == 3

RECURSIVE HostListsOf(_)
HostListsOf(n) ==
    IF n = 1 THEN HostItems
    ELSE {l \o "," \o item : l \in HostListsOf(n - 1), item \in HostItems}

HostLists == UNION {HostListsOf(n) : n \in 1..MaxItems}

\* ProcessLoop is called with a host list
InitParse == \E list \in HostLists : Constructed(list, << >>, "start", EmptyMap)

\* ProcessLoop up to `go client.processLoop()`: the hosts are parsed and the
\* store is created
ProcessLoop ==
    /\ pollPc = "start"
    /\ hosts' = ParseHosts(hostList)
    /\ msg' = EmptyMap
    /\ pollPc' = "check"
    /\ UNCHANGED <<hostList, tableVars, logVars, pollIdx, updates, touched,
                   divisors, recOps>>

SpecParse == InitParse /\ [][ProcessLoop]_vars

\* the program with the user's selection changes, configured with one host
InitFull == Started("h1", EmptyMap)

NextFull ==
    \/ CheckServer
    \/ QueueUpdateDraw
    \/ Tick
    \/ RunUpdate
    \/ SelectActive
    \/ SelectArchived

SpecFull == InitFull /\ [][NextFull]_vars

----------------------------------------------------------------------------
(* The update closure on its own: any poll result of any configured host is *)
(* applied, and the rows each reconciliation pass inserts and deletes are   *)
(* recorded in recOps.                                                      *)

ApplyPoll ==
    /\ \E i \in 1..Len(hosts) : \E res \in getServerData(hosts[i]) :
          update("render", hosts[i], res, TRUE)
    /\ UNCHANGED <<hostList, hosts, pollVars, updates>>

SpecApply == Init /\ [][ApplyPoll]_vars

----------------------------------------------------------------------------
(* The aggregation passes on their own, over stores with archived lists of  *)
(* every shape up to MaxArchived.                                           *)

AggDirs == {<<"/t1", "/d1">>, <<"/t2", "/d2">>}

AggPlots(h, n) ==
    {Plot(PlotId(h, n), PlotFinished, tm, d[1], d[2]) : tm \in {TimesA, TimesB}, d \in AggDirs}
        \cup {Plot(PlotId(h, n), st, TimesA, d[1], d[2]) :
                  st \in {PlotError, PlotKilled}, d \in AggDirs}
        \cup {Plot(PlotId(h, n), PlotRunning, TimesRunning, d[1], d[2]) : d \in AggDirs}

RECURSIVE AggArchived(_, _)
AggArchived(h, n) ==
    IF n = 0 THEN {<< >>}
    ELSE AggArchived(h, n - 1)
            \cup {Append(l, p) : l \in {x \in AggArchived(h, n - 1) : Len(x) = n - 1},
                                 p \in AggPlots(h, n)}

AggMsgs(h) ==
    {[Status |-> "", Actives |-> << >>, Archived |-> l, TempDirs |-> t, TargetDirs |-> g] :
        l \in AggArchived(h, MaxArchived),
        t \in {EmptyMap, ("/t1" :> 5)},
        g \in {EmptyMap, ("/d2" :> 7)}}

\* a second host whose archived list holds a failed plot and one still marked
\* running, both in advertised directories
AggOther(h) ==
    [Status |-> "",
     Actives |-> << >>,
     Archived |-> <<Plot(PlotId(h, 1), PlotError, TimesA, "/t1", "/d1"),
                    Plot(PlotId(h, 2), PlotRunning, TimesRunning, "/t1", "/d1")>>,
     TempDirs |-> ("/t1" :> 6),
     TargetDirs |-> ("/d1" :> 9)]

AggStores ==
    {(Host1 :> m) : m \in AggMsgs(Host1)}
        \cup {(Host1 :> m) @@ (Host2 :> o) :
                  m \in AggMsgs(Host1), o \in {StageMsg(Host2, 3), AggOther(Host2)}}

InitAgg == \E store \in AggStores : Started(HostList, store)

\* client.drawPlotDirsTable(); client.drawDestDirsTable()
AggregatePass ==
    /\ \E order \in Orders(DOMAIN msg) :
          LET p == drawPlotDirsTable(msg, order, plotDirsTable)
              d == drawDestDirsTable(msg, order, destDirsTable)
          IN  /\ plotDirsTable' = p.tab
              /\ destDirsTable' = d.tab
              /\ titles' = [titles EXCEPT !.plotDirs = p.title, !.destDirs = d.title]
              /\ divisors' = [plotDirs |-> p.by, destDirs |-> d.by]
              /\ recOps' = [plotDirs |-> [ins |-> p.ins, del |-> p.del],
                            destDirs |-> [ins |-> d.ins, del |-> d.del]]
    /\ Touch("render", {"msg", "plotDirsTable", "destDirsTable"})
    /\ UNCHANGED <<hostList, hosts, msg, activePlotsTable, archivedPlotsTable, hostsTable,
                   logVars, pollVars, updates>>

SpecAgg == InitAgg /\ [][AggregatePass]_vars

----------------------------------------------------------------------------
(* Properties *)

\* the step runs the closure at the head of the queue
Applies == updates # << >> /\ Len(updates') < Len(updates)
AppliedHost == Head(updates).host
AppliedRes == Head(updates).res

\* the rows of a table that belong to host g
RowsOfHost(table, g) == [k \in {x \in DOMAIN table : table[x].Host = g} |-> table[k]]

JobTablesUnchanged ==
    /\ activePlotsTable' = activePlotsTable
    /\ archivedPlotsTable' = archivedPlotsTable
    /\ plotDirsTable' = plotDirsTable
    /\ destDirsTable' = destDirsTable

\* C1: a failed poll of a host that already has a record leaves the record's
\* active jobs, archived jobs and both directory maps as they were, leaves the
\* rows of the active, archived, plot-directory and dest-directory tables as
\* they were, and changes only that host's status, in the store and in the
\* hosts table, to the error's message.
C1_FailedPollKeepsData ==
    [][(Applies /\ AppliedRes.err # "" /\ AppliedHost \in DOMAIN msg) =>
          LET h == AppliedHost
              e == AppliedRes.err
          IN  /\ msg' = [msg EXCEPT ![h].Status = e]
              /\ msg'[h].Actives = msg[h].Actives
              /\ msg'[h].Archived = msg[h].Archived
              /\ msg'[h].TempDirs = msg[h].TempDirs
              /\ msg'[h].TargetDirs = msg[h].TargetDirs
              /\ JobTablesUnchanged
              /\ hostsTable' = [hostsTable EXCEPT ![h].Status = e]
              /\ UNCHANGED logVars]_vars

\* a host shows an error status while its archived plot is still in the store
\* and in the archived table
C1_Witness ==
    \E h \in DOMAIN msg :
        /\ msg[h].Status \in FetchErrors
        /\ hostsTable[h].Status = msg[h].Status
        /\ msg[h].Archived # << >>
        /\ msg[h].TempDirs # EmptyMap
        /\ \E k \in DOMAIN archivedPlotsTable : archivedPlotsTable[k].Host = h

\* C2: after a successful poll of a host is applied, the store's record of the
\* host is exactly the fetched snapshot and the host's status is empty in the
\* store and in the hosts table, whatever the record was before.
C2_SuccessReplacesRecord ==
    [][(Applies /\ AppliedRes.err = "") =>
          LET h == AppliedHost
          IN  /\ h \in DOMAIN msg'
              /\ msg'[h] = AppliedRes.msg
              /\ msg'[h].Status = ""
              /\ h \in DOMAIN hostsTable'
              /\ hostsTable'[h].Status = ""
              /\ \A g \in (DOMAIN msg) \ {h} : msg'[g] = msg[g]]_vars

\* a snapshot is about to be applied to a host whose record carries an error
\* status and other jobs than the snapshot
C2_Witness ==
    /\ updates # << >>
    /\ AppliedRes.err = ""
    /\ AppliedHost \in DOMAIN msg
    /\ msg[AppliedHost].Status \in FetchErrors
    /\ msg[AppliedHost].Archived # << >>
    /\ msg[AppliedHost].Archived # AppliedRes.msg.Archived

\* C3: a failed poll of a host with no record creates a record with no active
\* jobs, no archived jobs and empty directory maps whose status is the error's
\* message; the host gets a row with that status in the hosts table and has no
\* row in the job and directory tables.
C3_FailedFirstPoll ==
    [][(Applies /\ AppliedRes.err # "" /\ AppliedHost \notin DOMAIN msg) =>
          LET h == AppliedHost
              e == AppliedRes.err
          IN  /\ msg' = Put(msg, h, [Status |-> e, Actives |-> << >>, Archived |-> << >>,
                                     TempDirs |-> EmptyMap, TargetDirs |-> EmptyMap])
              /\ h \in DOMAIN hostsTable'
              /\ hostsTable'[h] = [Host |-> h, Status |-> e]
              /\ JobTablesUnchanged
              /\ RowsOfHost(activePlotsTable', h) = EmptyMap
              /\ RowsOfHost(archivedPlotsTable', h) = EmptyMap
              /\ RowsOfHost(plotDirsTable', h) = EmptyMap
              /\ RowsOfHost(destDirsTable', h) = EmptyMap]_vars

\* a host has an empty record with an error status and its row in the hosts
\* table, beside a host with rows in the other tables
C3_Witness ==
    \E h \in DOMAIN msg :
        /\ msg[h] = [EmptyMsg EXCEPT !.Status = ErrTimeout]
        /\ h \in DOMAIN hostsTable
        /\ hostsTable[h].Status = ErrTimeout
        /\ activePlotsTable # EmptyMap
        /\ plotDirsTable # EmptyMap

\* C4: a failed poll of host h changes nothing of another host g: g's record,
\* g's row of the hosts table, g's job rows and g's directory rows are the same
\* before and after.
C4_FailureIsolated ==
    [][(Applies /\ AppliedRes.err # "") =>
          \A g \in ((DOMAIN msg) \cup {hosts[i] : i \in 1..Len(hosts)}) \ {AppliedHost} :
              /\ (g \in DOMAIN msg) = (g \in DOMAIN msg')
              /\ g \in DOMAIN msg => msg'[g] = msg[g]
              /\ (g \in DOMAIN hostsTable) = (g \in DOMAIN hostsTable')
              /\ g \in DOMAIN hostsTable => hostsTable'[g] = hostsTable[g]
              /\ RowsOfHost(activePlotsTable', g) = RowsOfHost(activePlotsTable, g)
              /\ RowsOfHost(archivedPlotsTable', g) = RowsOfHost(archivedPlotsTable, g)
              /\ RowsOfHost(plotDirsTable', g) = RowsOfHost(plotDirsTable, g)
              /\ RowsOfHost(destDirsTable', g) = RowsOfHost(destDirsTable, g)]_vars

\* the second host of the sweep failed after the first one's snapshot was
\* applied: the first host is healthy and keeps its rows
C4_Witness ==
    /\ Host1 \in DOMAIN msg /\ Host2 \in DOMAIN msg
    /\ msg[Host2].Status \in FetchErrors
    /\ msg[Host1].Status = ""
    /\ hostsTable[Host1].Status = ""
    /\ hostsTable[Host2].Status = msg[Host2].Status
    /\ RowsOfHost(archivedPlotsTable, Host1) # EmptyMap
    /\ RowsOfHost(plotDirsTable, Host1) # EmptyMap

\* no piece of render-owned state has been accessed by the poll goroutine
ThreadConfined == \A a \in touched : a[2] \in RenderOwned => a[1] = "render"

RenderState == <<msg, tableVars, logVars>>

\* a step of the poll goroutine that returns from getServerData
PollResult == pollPc = "fetching" /\ pollPc' # "fetching"

PollOnlyEnqueues ==
    /\ PollResult =>
          /\ Len(updates') = Len(updates) + 1
          /\ SubSeq(updates', 1, Len(updates)) = updates
          /\ updates'[Len(updates')].host = hosts[pollIdx]
    /\ Len(updates') > Len(updates) => PollResult
    /\ pollVars' # pollVars => UNCHANGED RenderState
    /\ RenderState' # RenderState =>
          /\ UNCHANGED pollVars
          /\ Applies \/ updates' = updates

\* C5: the store, the five tables, the log maps, the selection key and the log
\* box are accessed only by steps of the render thread (queued closures and
\* selection callbacks, one at a time); the poll goroutine only appends one
\* closure to the queue per poll result and changes no render-owned state.
C5_RenderThreadConfinement == []ThreadConfined /\ [][PollOnlyEnqueues]_vars

\* the poll goroutine is in a fetch with a closure queued, after closures and a
\* selection callback have run on the render thread
C5_Witness ==
    /\ pollPc = "fetching"
    /\ updates # << >>
    /\ <<"poll", "app">> \in touched
    /\ <<"render", "msg">> \in touched
    /\ <<"render", "logPlotId">> \in touched
    /\ logPlotId # ""

----------------------------------------------------------------------------
(* The row sets the draws are given, written as maps from key to row *)

ActiveRefs(store) ==
    UNION {{<<h, i>> : i \in 1..Len(store[h].Actives)} : h \in DOMAIN store}

ArchivedRefs(store) ==
    UNION {{<<h, i>> : i \in 1..Len(store[h].Archived)} : h \in DOMAIN store}

ActiveRowSet(store, now) ==
    LET refs == ActiveRefs(store)
        plot(x) == store[x[1]].Actives[x[2]]
    IN  [id \in {plot(x).Id : x \in refs} |->
            LET x == CHOOSE y \in refs : plot(y).Id = id
            IN  makeActivePlotsData(x[1], plot(x), now)]

ArchivedRowSet(store) ==
    LET refs == ArchivedRefs(store)
        plot(x) == store[x[1]].Archived[x[2]]
    IN  [id \in {plot(x).Id : x \in refs} |->
            LET x == CHOOSE y \in refs : plot(y).Id = id
            IN  makeArchivedPlotData(x[1], plot(x))]

HostRowSet(store) == [h \in DOMAIN store |-> makeHostsData(h, store[h])]

AnyOrder(store) == CHOOSE o \in Orders(DOMAIN store) : TRUE

PlotDirRowSet(store) == makePlotDirsData(store, AnyOrder(store)).dirs
DestDirRowSet(store) == makeDestDirsData(store, AnyOrder(store)).dirs

\* a pass over table old with row set rows left table new and did ops
ReconciledExactly(old, new, rows, ops) ==
    /\ DOMAIN new = DOMAIN rows
    /\ \A k \in DOMAIN rows : new[k] = rows[k]
    /\ ops.del = (DOMAIN old) \ (DOMAIN rows)
    /\ ops.ins = (DOMAIN rows) \ (DOMAIN old)

Passed(t) == t \in DOMAIN recOps'

\* C6: after a reconciliation pass of a table with prior keys K and row set R
\* the table's keys are exactly the keys of R: the keys of K not in R were
\* removed, the keys of R not in K were inserted, and every key of R holds R's
\* row.
C6_ReconcileExact ==
    [][/\ Passed("hosts") =>
            ReconciledExactly(hostsTable, hostsTable', HostRowSet(msg'), recOps'.hosts)
       /\ Passed("active") =>
            \E now \in Clock :
                ReconciledExactly(activePlotsTable, activePlotsTable',
                                  ActiveRowSet(msg', now), recOps'.active)
       /\ Passed("archived") =>
            ReconciledExactly(archivedPlotsTable, archivedPlotsTable',
                              ArchivedRowSet(msg'), recOps'.archived)
       /\ Passed("plotDirs") =>
            ReconciledExactly(plotDirsTable, plotDirsTable',
                              PlotDirRowSet(msg'), recOps'.plotDirs)
       /\ Passed("destDirs") =>
            ReconciledExactly(destDirsTable, destDirsTable',
                              DestDirRowSet(msg'), recOps'.destDirs)]_vars

\* a pass removed a row, inserted a row and kept a row, in the active table
\* and in the plot-directory table
C6_Witness ==
    /\ DOMAIN recOps = {"active", "plotDirs", "destDirs", "archived", "hosts"}
    /\ recOps.active.ins # {} /\ recOps.active.del # {}
    /\ (DOMAIN activePlotsTable) \ recOps.active.ins # {}
    /\ recOps.plotDirs.del # {}
    /\ (DOMAIN plotDirsTable) \ recOps.plotDirs.ins # {}

NoRowOps(ops) == ops.ins = {} /\ ops.del = {}

\* C7: a pass over a table that already holds exactly the pass's row set (the
\* table as the previous pass with that row set left it) inserts no row,
\* deletes no row and leaves the table's keys and rows as they were.
C7_ReconcileIdempotent ==
    [][/\ (Passed("hosts") /\ HostRowSet(msg') = hostsTable) =>
            NoRowOps(recOps'.hosts) /\ hostsTable' = hostsTable
       /\ (Passed("active") /\ \E now \in Clock :
                                  /\ ActiveRowSet(msg', now) = activePlotsTable
                                  /\ ActiveRowSet(msg', now) = activePlotsTable') =>
            NoRowOps(recOps'.active)
       /\ (Passed("archived") /\ ArchivedRowSet(msg') = archivedPlotsTable) =>
            NoRowOps(recOps'.archived) /\ archivedPlotsTable' = archivedPlotsTable
       /\ (Passed("plotDirs") /\ PlotDirRowSet(msg') = plotDirsTable) =>
            NoRowOps(recOps'.plotDirs) /\ plotDirsTable' = plotDirsTable
       /\ (Passed("destDirs") /\ DestDirRowSet(msg') = destDirsTable) =>
            NoRowOps(recOps'.destDirs) /\ destDirsTable' = destDirsTable]_vars

\* the last passes went over five non-empty tables and inserted and deleted
\* nothing
C7_Witness ==
    /\ DOMAIN recOps = {"active", "plotDirs", "destDirs", "archived", "hosts"}
    /\ \A t \in DOMAIN recOps : NoRowOps(recOps[t])
    /\ activePlotsTable # EmptyMap /\ archivedPlotsTable # EmptyMap
    /\ plotDirsTable # EmptyMap /\ destDirsTable # EmptyMap
    /\ hostsTable # EmptyMap

----------------------------------------------------------------------------
(* The aggregation, stated over the archived lists of the store *)

AggregationDone == DOMAIN recOps = {"plotDirs", "destDirs"}

\* the positions of host h's archived plots with source directory p and a
\* state among states
PlotDirJobs(h, p, states) ==
    {i \in 1..Len(msg[h].Archived) :
        msg[h].Archived[i].PlotDir = p /\ msg[h].Archived[i].State \in states}

DestDirJobs(h, p, states) ==
    {i \in 1..Len(msg[h].Archived) :
        msg[h].Archived[i].TargetDir = p /\ msg[h].Archived[i].State \in states}

\* the sum over the plots at positions idx of phase time b minus phase time a
RECURSIVE SumDelta(_, _, _, _)
SumDelta(h, idx, a, b) ==
    IF idx = {} THEN 0
    ELSE LET i == CHOOSE x \in idx : TRUE
         IN  (msg[h].Archived[i].PhaseTime[b + 1] - msg[h].Archived[i].PhaseTime[a + 1])
                 + SumDelta(h, idx \ {i}, a, b)

\* C8: an aggregation pass divides by a directory's succeeded count only when
\* the count is greater than 0, it divides for every directory whose count is,
\* and a directory whose count is 0 has every average exactly zero; no pass
\* divides by zero.
C8_DivisionGuarded ==
    /\ \A c \in divisors.plotDirs \cup divisors.destDirs : c > 0
    /\ AggregationDone =>
          /\ divisors.plotDirs =
                {plotDirsTable[k].Count : k \in {x \in DOMAIN plotDirsTable :
                                                    plotDirsTable[x].Count > 0}}
          /\ divisors.destDirs =
                {destDirsTable[k].Count : k \in {x \in DOMAIN destDirsTable :
                                                    destDirsTable[x].Count > 0}}
    /\ \A k \in DOMAIN plotDirsTable :
          plotDirsTable[k].Count = 0 =>
              /\ plotDirsTable[k].AvgPhase1 = 0 /\ plotDirsTable[k].AvgPhase2 = 0
              /\ plotDirsTable[k].AvgPhase3 = 0 /\ plotDirsTable[k].AvgPhase4 = 0
    /\ \A k \in DOMAIN destDirsTable :
          destDirsTable[k].Count = 0 => destDirsTable[k].AvgPlotTime = 0

\* a pass produced a directory with failed plots only, a directory with no
\* plots at all and a directory with finished plots
C8_Witness ==
    /\ AggregationDone
    /\ \E k \in DOMAIN plotDirsTable :
          plotDirsTable[k].Count = 0 /\ plotDirsTable[k].Failed > 0
    /\ \E k \in DOMAIN plotDirsTable :
          plotDirsTable[k].Count = 0 /\ plotDirsTable[k].Failed = 0
    /\ \E k \in DOMAIN plotDirsTable : plotDirsTable[k].Count > 0
    /\ \E k \in DOMAIN destDirsTable :
          destDirsTable[k].Count = 0 /\ destDirsTable[k].Failed > 0

\* C9: a directory used by an archived plot of host h and not in h's advertised
\* map still has an entry keyed by h and the directory, with the max-uint64
\* sentinel as available bytes and with the numbers of h's Finished and of h's
\* Errored or Killed archived plots of that directory as its counts.
C9_OrphanedDirectories ==
    AggregationDone =>
        \A h \in DOMAIN msg : \A i \in 1..Len(msg[h].Archived) :
            LET p == msg[h].Archived[i].PlotDir
                t == msg[h].Archived[i].TargetDir
            IN  /\ p \notin DOMAIN msg[h].TempDirs =>
                      /\ DirKey(h, p) \in DOMAIN plotDirsTable
                      /\ plotDirsTable[DirKey(h, p)].Host = h
                      /\ plotDirsTable[DirKey(h, p)].PlotDir = p
                      /\ plotDirsTable[DirKey(h, p)].AvailableBytes = MaxUint64
                      /\ plotDirsTable[DirKey(h, p)].Count =
                            Cardinality(PlotDirJobs(h, p, {PlotFinished}))
                      /\ plotDirsTable[DirKey(h, p)].Failed =
                            Cardinality(PlotDirJobs(h, p, {PlotError, PlotKilled}))
                /\ t \notin DOMAIN msg[h].TargetDirs =>
                      /\ DirKey(h, t) \in DOMAIN destDirsTable
                      /\ destDirsTable[DirKey(h, t)].Host = h
                      /\ destDirsTable[DirKey(h, t)].DestDir = t
                      /\ destDirsTable[DirKey(h, t)].AvailableBytes = MaxUint64
                      /\ destDirsTable[DirKey(h, t)].Count =
                            Cardinality(DestDirJobs(h, t, {PlotFinished}))
                      /\ destDirsTable[DirKey(h, t)].Failed =
                            Cardinality(DestDirJobs(h, t, {PlotError, PlotKilled}))

\* a pass produced an orphaned source directory and an orphaned destination
\* directory, each with one finished and one failed plot
C9_Witness ==
    /\ AggregationDone
    /\ \E h \in DOMAIN msg : \E i \in 1..Len(msg[h].Archived) :
          LET p == msg[h].Archived[i].PlotDir
          IN  /\ p \notin DOMAIN msg[h].TempDirs
              /\ plotDirsTable[DirKey(h, p)].Count = 1
              /\ plotDirsTable[DirKey(h, p)].Failed = 1
    /\ \E h \in DOMAIN msg : \E i \in 1..Len(msg[h].Archived) :
          LET t == msg[h].Archived[i].TargetDir
          IN  /\ t \notin DOMAIN msg[h].TargetDirs
              /\ destDirsTable[DirKey(h, t)].Count = 1
              /\ destDirsTable[DirKey(h, t)].Failed = 1

\* C10: every entry of an aggregation pass counts as succeeded the host's
\* archived Finished plots of the directory and as failed its Errored and
\* Killed ones, plots in another state counting as neither; each average is
\* the sum over the Finished plots alone of the phase-time difference (phase n
\* minus phase n-1 for source directories, phase 4 minus phase 0 for
\* destination directories) divided by the succeeded count.
C10_CountsAndAverages ==
    AggregationDone =>
        /\ \A k \in DOMAIN plotDirsTable :
              LET r == plotDirsTable[k]
                  fin == PlotDirJobs(r.Host, r.PlotDir, {PlotFinished})
                  n == Cardinality(fin)
              IN  /\ r.Count = n
                  /\ r.Failed =
                        Cardinality(PlotDirJobs(r.Host, r.PlotDir, {PlotError, PlotKilled}))
                  /\ n > 0 =>
                        /\ r.AvgPhase1 = GoDiv(SumDelta(r.Host, fin, 0, 1), n)
                        /\ r.AvgPhase2 = GoDiv(SumDelta(r.Host, fin, 1, 2), n)
                        /\ r.AvgPhase3 = GoDiv(SumDelta(r.Host, fin, 2, 3), n)
                        /\ r.AvgPhase4 = GoDiv(SumDelta(r.Host, fin, 3, 4), n)
        /\ \A k \in DOMAIN destDirsTable :
              LET r == destDirsTable[k]
                  fin == DestDirJobs(r.Host, r.DestDir, {PlotFinished})
                  n == Cardinality(fin)
              IN  /\ r.Count = n
                  /\ r.Failed =
                        Cardinality(DestDirJobs(r.Host, r.DestDir, {PlotError, PlotKilled}))
                  /\ n > 0 => r.AvgPlotTime = GoDiv(SumDelta(r.Host, fin, 0, 4), n)

\* a pass averaged two finished plots with different phase times in one
\* directory, beside a directory holding a failed and a running plot
C10_Witness ==
    /\ AggregationDone
    /\ \E k \in DOMAIN plotDirsTable :
          /\ plotDirsTable[k].Count = 2
          /\ plotDirsTable[k].AvgPhase1 = 1 /\ plotDirsTable[k].AvgPhase2 = 1
          /\ plotDirsTable[k].AvgPhase3 = 3 /\ plotDirsTable[k].AvgPhase4 = 3
    /\ \E k \in DOMAIN destDirsTable :
          destDirsTable[k].Count = 2 /\ destDirsTable[k].AvgPlotTime = 8
    /\ \E k \in DOMAIN plotDirsTable :
          /\ plotDirsTable[k].Count = 0 /\ plotDirsTable[k].Failed = 1
          /\ Cardinality(PlotDirJobs(plotDirsTable[k].Host, plotDirsTable[k].PlotDir,
                                     PlotStates)) = 2

----------------------------------------------------------------------------
(* The poll scheduler *)

\* the host whose fetch is in flight, if any
InFlight == IF pollPc = "fetching" THEN {hosts[pollIdx]} ELSE {}

\* the fetch of the host at the sweep's position begins
FetchBegins == pollPc = "check" /\ pollPc' = "fetching" /\ pollIdx' = pollIdx

\* the fetch in flight returns and the sweep moves to the next host in
\* configuration order
FetchReturnsMidSweep ==
    /\ pollPc = "fetching" /\ pollIdx < Len(hosts)
    /\ pollPc' = "check" /\ pollIdx' = pollIdx + 1

\* the fetch of the last configured host returns and the sweep is finished
FetchReturnsEndOfSweep ==
    /\ pollPc = "fetching" /\ pollIdx = Len(hosts)
    /\ pollPc' = "tick" /\ pollIdx' = 1

\* a tick starts the next sweep at the first configured host
SweepStarts == pollPc = "tick" /\ pollIdx = 1 /\ pollPc' = "check" /\ pollIdx' = 1

\* C11: the first sweep starts at the first configured host at startup without
\* waiting for a tick, every later sweep starts on a tick received after the
\* previous sweep has finished; a fetch begins only when none is in flight, a
\* sweep fetches the configured hosts one after the other in configuration
\* order, each once, and at most one host has a fetch in flight.
C11_SequentialSweeps ==
    /\ pollPc = "check" /\ pollIdx = 1
    /\ [](pollPc \in {"check", "fetching", "tick"} /\ pollIdx \in 1..Len(hosts)
          /\ Cardinality(InFlight) <= 1)
    /\ [][pollVars' # pollVars =>
            \/ FetchBegins
            \/ FetchReturnsMidSweep
            \/ FetchReturnsEndOfSweep
            \/ SweepStarts]_vars

\* the fetch of the second host is in flight in a sweep after the first, whose
\* results for both hosts have been applied
C11_Witness ==
    /\ DOMAIN msg = {Host1, Host2}
    /\ InFlight = {Host2}
    /\ updates = << >>

\* a closure with the poll result of host h is in the queue
Queued(h) == \E j \in 1..Len(updates) : updates[j].host = h

\* the closures checkServer can queue for the configured hosts
Closures ==
    UNION {{[host |-> ConfiguredHosts[i], res |-> res] :
                res \in getServerData(ConfiguredHosts[i])} :
           i \in 1..Len(ConfiguredHosts)}

\* the store holds what closure c leaves there: the error text as the host's
\* status, or the snapshot as the host's record
Reflects(c) ==
    /\ c.host \in DOMAIN msg
    /\ msg[c.host].Status = c.res.err
    /\ c.res.err = "" => msg[c.host] = c.res.msg

\* C12: when every fetch returns and the render thread keeps running its
\* queue, every configured host has a fetch in flight again and again, every
\* fetch in flight leads to its result being queued and every queued result to
\* its closure having been applied to the store, whatever the other hosts
\* answer (snapshot, decode error or timeout).
C12_NoHostBlocksTheOthers ==
    /\ \A i \in 1..Len(ConfiguredHosts) :
          LET h == ConfiguredHosts[i]
          IN  /\ []<>(InFlight = {h})
              /\ (InFlight = {h}) ~> Queued(h)
    /\ \A c \in Closures :
          (\E j \in 1..Len(updates) : updates[j] = c) ~> Reflects(c)

\* the second host's fetch is in flight while the first host's record holds a
\* timeout and the second host already has a record from an earlier sweep
C12_Witness ==
    /\ InFlight = {Host2}
    /\ Host1 \in DOMAIN msg /\ msg[Host1].Status = ErrTimeout
    /\ Host2 \in DOMAIN msg

----------------------------------------------------------------------------
(* The selection and the log box *)

\* the ids of the active and of the archived plots of the store
ActiveIds(store) == DOMAIN ActiveRowSet(store, 0)
ArchivedIds(store) == DOMAIN ArchivedRowSet(store)

\* the selected key is the key of no plot of the store
Orphaned == logPlotId \notin ActiveIds(msg) \cup ArchivedIds(msg)

\* C13: whenever the selected key is orphaned (no active and no archived plot
\* of the store has it), the log box is empty: it does not show the log of the
\* plot that disappeared.
C13_OrphanedSelectionShowsNothing == Orphaned => logText = ""

\* the keys a selection-changed callback can be called with
EventKeys == Keys(activePlotsTable) \cup Keys(archivedPlotsTable) \cup {NoKey}

\* the step is a selection-changed callback for key k
SelectionEvent(k) == selectActivePlot(k) \/ selectArchivedPlot(k)

\* C14: a selection-changed callback for key k of either job table makes k the
\* selected key, titles the log box for k and shows k's log tail: the one of
\* the active logs when k has one there, otherwise the one of the archived
\* logs when k has one there.
C14_SelectionShowsLog ==
    [][\A k \in EventKeys :
          SelectionEvent(k) =>
              /\ logPlotId' = k
              /\ logTitle' = LogTitle(k)
              /\ k \in DOMAIN activeLogs => logText' = Join(activeLogs[k])
              /\ (k \notin DOMAIN activeLogs /\ k \in DOMAIN archivedLogs) =>
                    logText' = Join(archivedLogs[k])]_vars

\* an archived plot is selected and the log box shows its archived log while
\* other plots have active logs
C14_Witness ==
    /\ logPlotId \in DOMAIN archivedLogs
    /\ logPlotId \notin DOMAIN activeLogs
    /\ activeLogs # EmptyMap
    /\ logText = Join(archivedLogs[logPlotId])
    /\ logText # ""
    /\ <<"render", "logPlotId">> \in touched

\* C15: a selection-changed callback for a key that has no log tail (neither
\* an active nor an archived one) still makes the key the selected key and
\* leaves the log box empty.
C15_SelectionWithoutLogClears ==
    [][\A k \in EventKeys :
          (SelectionEvent(k) /\ k \notin (DOMAIN activeLogs) \cup (DOMAIN archivedLogs)) =>
              /\ logPlotId' = k
              /\ logTitle' = LogTitle(k)
              /\ logText' = ""]_vars

\* a key without a log has been selected while plots with logs are shown
C15_Witness ==
    /\ <<"render", "logPlotId">> \in touched
    /\ logPlotId = NoKey
    /\ logPlotId \notin (DOMAIN activeLogs) \cup (DOMAIN archivedLogs)
    /\ logTitle = LogTitle(NoKey)
    /\ logText = ""
    /\ activeLogs # EmptyMap /\ archivedLogs # EmptyMap

\* the log tail of the archived plot with id k in the store, as shown
ArchivedTail(store, k) ==
    LET x == CHOOSE y \in ArchivedRefs(store) : store[y[1]].Archived[y[2]].Id = k
    IN  Join(store[x[1]].Archived[x[2]].Tail)

\* the step applies a successful poll that moves the selected plot from the
\* active list to the archived list
SelectedPlotArchived ==
    /\ Applies /\ AppliedRes.err = ""
    /\ logPlotId \in ActiveIds(msg)
    /\ logPlotId \in ArchivedIds(msg') \ ActiveIds(msg')

\* C16: when a plot was selected while active and a successful poll reports it
\* as archived and no longer as active, the log box shows the plot's archived
\* log tail once that poll is applied, and a later selection of the plot in
\* the archived table shows its archived log tail too.
C16_ArchivedFallback ==
    /\ [][SelectedPlotArchived =>
            /\ logPlotId' = logPlotId
            /\ logTitle' = LogTitle(logPlotId)
            /\ logText' = ArchivedTail(msg', logPlotId)]_vars
    /\ [][\A k \in ArchivedIds(msg) \ ActiveIds(msg) :
            SelectionEvent(k) =>
                logPlotId' = k /\ logText' = ArchivedTail(msg, k)]_vars

\* the plot selected is active, and the closure at the head of the queue holds
\* a snapshot that lists it as archived with a longer log
C16_Witness ==
    /\ logPlotId \in ActiveIds(msg)
    /\ logText = Join(activeLogs[logPlotId])
    /\ updates # << >>
    /\ Head(updates).res.err = ""
    /\ LET store == Put(msg, Head(updates).host, Head(updates).res.msg)
       IN  /\ logPlotId \in ArchivedIds(store) \ ActiveIds(store)
           /\ ArchivedTail(store, logPlotId) # logText

----------------------------------------------------------------------------
(* Two hosts, one answering and one timing out *)

\* the store after host 1's snapshot with one running and one finished plot
\* and host 2's timed-out first fetch have been applied
TwoHostScenario ==
    /\ DOMAIN msg = {Host1, Host2}
    /\ msg[Host1] = StageMsg(Host1, 2)
    /\ msg[Host2] = [EmptyMsg EXCEPT !.Status = ErrTimeout]
    /\ updates = << >>

\* C17: with host 1's snapshot (one running plot, one archived Finished plot)
\* and host 2's timeout both applied, the active table has exactly host 1's
\* running plot, the archived table exactly host 1's finished plot, the hosts
\* table exactly two rows with an empty status for host 1 and the timeout
\* message for host 2, and the directory tables hold host 1's directories,
\* those of the finished plot with a succeeded count of 1, and no row of
\* host 2.
C17_TwoHostScenario ==
    TwoHostScenario =>
        /\ DOMAIN activePlotsTable = {PlotId(Host1, 2)}
        /\ activePlotsTable[PlotId(Host1, 2)].Host = Host1
        /\ DOMAIN archivedPlotsTable = {PlotId(Host1, 1)}
        /\ archivedPlotsTable[PlotId(Host1, 1)].Host = Host1
        /\ DOMAIN hostsTable = {Host1, Host2}
        /\ hostsTable[Host1].Status = ""
        /\ hostsTable[Host2].Status = ErrTimeout
        /\ DOMAIN plotDirsTable = {DirKey(Host1, d) : d \in DOMAIN BothTemp}
        /\ DOMAIN destDirsTable = {DirKey(Host1, d) : d \in DOMAIN BothTarget}
        /\ plotDirsTable[DirKey(Host1, "/t1")].Count = 1
        /\ destDirsTable[DirKey(Host1, "/d1")].Count = 1
        /\ \A k \in DOMAIN plotDirsTable : plotDirsTable[k].Host # Host2
        /\ \A k \in DOMAIN destDirsTable : destDirsTable[k].Host # Host2

\* both results of the first sweep have been applied and the goroutine waits
\* for the ticker
C17_Witness ==
    /\ TwoHostScenario
    /\ pollPc = "tick"
    /\ hostsTable[Host2].Status = ErrTimeout
    /\ Cardinality(DOMAIN activePlotsTable) = 1

----------------------------------------------------------------------------
(* The host list *)

Digits == {"0", "1", "2", "3", "4", "5", "6", "7", "8", "9"}

\* the item ends in a colon followed by a port number
HasPortSuffix(item) ==
    \E i \in 1..(Len(item) - 1) :
        /\ At(item, i) = ":"
        /\ \A j \in (i + 1)..Len(item) : At(item, j) \in Digits

\* the configured host the item stands for
HostOfItem(item) == IF HasPortSuffix(item) THEN item ELSE item \o ":8484"

\* C18: the configured hosts are the comma-separated items of the host list
\* in order, each trimmed of surrounding white space; an item without a port
\* suffix has ":8484" appended and an item that ends in a port is kept as it
\* is.
C18_HostListParsed ==
    pollPc # "start" =>
        LET items == Split(hostList)
        IN  /\ Len(hosts) = Len(items)
            /\ \A i \in 1..Len(items) : hosts[i] = HostOfItem(TrimSpace(items[i]))

----------------------------------------------------------------------------
(* The tables against the store *)

\* C19: in every state the program reaches by applying poll results (of any
\* host, successful or failed, in any order), the keys of the active table
\* are the ids of the active plots of the store's records, the keys of the
\* archived table the ids of their archived plots, the keys of each directory
\* table the keys of a fresh aggregation of the store, and the hosts table
\* has one row per record of the store, with the record's status.
C19_TablesMatchStore ==
    /\ DOMAIN activePlotsTable = ActiveIds(msg)
    /\ DOMAIN archivedPlotsTable = ArchivedIds(msg)
    /\ DOMAIN plotDirsTable = DOMAIN PlotDirRowSet(msg)
    /\ DOMAIN destDirsTable = DOMAIN DestDirRowSet(msg)
    /\ DOMAIN hostsTable = DOMAIN msg
    /\ \A h \in DOMAIN msg :
          hostsTable[h].Host = h /\ hostsTable[h].Status = msg[h].Status

\* a failed poll has been applied to a host whose record holds plots, beside a
\* host that answers, and the tables show the plots of both
C19_Witness ==
    /\ DOMAIN msg = {Host1, Host2}
    /\ msg[Host1].Status = ErrDecode
    /\ msg[Host1].Actives # << >> /\ msg[Host1].Archived # << >>
    /\ msg[Host2].Status = ""
    /\ msg[Host2].Archived # << >>
    /\ Cardinality(DOMAIN archivedPlotsTable) = 3
    /\ activePlotsTable # EmptyMap
    /\ hostsTable[Host1].Status = ErrDecode

----------------------------------------------------------------------------
(* The order of the closures *)

\* the plots and directories of a record
JobData(m) == <<m.Actives, m.Archived, m.TempDirs, m.TargetDirs>>

\* the step leaves in the store what closure c does to it
AppliesClosure(c) ==
    /\ DOMAIN msg' = (DOMAIN msg) \cup {c.host}
    /\ msg'[c.host].Status = c.res.err
    /\ c.res.err = "" => msg'[c.host] = c.res.msg
    /\ c.res.err # "" =>
          JobData(msg'[c.host]) =
              JobData(IF c.host \in DOMAIN msg THEN msg[c.host] ELSE EmptyMsg)
    /\ \A g \in (DOMAIN msg) \ {c.host} : msg'[g] = msg[g]

\* C20: the closures are applied in the order in which the fetches completed:
\* a completed fetch puts its closure behind the ones already queued, the
\* render thread applies the oldest queued closure and nothing else changes
\* the store, so a host's status is the one of its poll applied last, its
\* plots and directories are those of its successful poll applied last, and
\* no result is applied after a newer one.
C20_AppliedInCompletionOrder ==
    [][/\ PollResult =>
            /\ Len(updates') = Len(updates) + 1
            /\ SubSeq(updates', 1, Len(updates)) = updates
            /\ msg' = msg
       /\ Applies =>
            /\ updates' = Tail(updates)
            /\ AppliesClosure(Head(updates))
       /\ msg' # msg => Applies]_vars

\* two results of the same host are queued, a snapshot and then an error,
\* while the store holds yet another status for the host
C20_Witness ==
    /\ Len(updates) = 2
    /\ updates[1].host = updates[2].host
    /\ updates[1].res.err = "" /\ updates[2].res.err = ErrTimeout
    /\ updates[1].host \in DOMAIN msg
    /\ msg[updates[1].host].Status = ErrDecode
    /\ msg[updates[1].host].Actives # updates[1].res.msg.Actives

----------------------------------------------------------------------------
(* The selected key *)

\* C21: the selected key changes only in selection-changed callbacks: a step
\* that applies a poll result, successful or failed, leaves it as it is, also
\* when the step removes the selected plot's row from its table.
C21_SelectionKeptByPolls ==
    [][/\ Applies => logPlotId' = logPlotId
       /\ logPlotId' # logPlotId =>
             \E k \in EventKeys : SelectionEvent(k) /\ logPlotId' = k]_vars

\* a plot is selected whose row a poll has removed: the key is still the
\* selected one although no table and no record holds it
C21_Witness ==
    /\ logPlotId # NoKey
    /\ Orphaned
    /\ logPlotId \notin Keys(activePlotsTable) \cup Keys(archivedPlotsTable)
    /\ msg # EmptyMap

====
